---- MODULE Spec2Model ----
(***************************************************************************)
(* Grid movement, cell reservation and collision detection of gridman_ecs. *)
(*                                                                         *)
(* One frame ("tick") of the Playing state runs the Update schedule and    *)
(* then PostUpdate.  Every system is an action; `done` holds the systems   *)
(* that have run in the current frame and the guards of the actions are    *)
(* the ordering constraints declared by the plugins.  Systems that the     *)
(* plugins leave unordered may run in any order.                           *)
(*                                                                         *)
(* Lengths and positions are fixed point: PUnit units are one tile (one    *)
(* full step of progress), time steps are in milliseconds.                 *)
(***************************************************************************)
EXTENDS Integers, Sequences, FiniteSets, TLC

\* ---------------------------------------------------------------- bounds
\* progress resolution: PUnit units of progress are 1.0
PUnit == 4
\* the frames of a run
MaxFrames == 4
\* the largest side of a wall grid the functions are applied to on their own
MaxSide == 2

\* ------------------------------------------------------ program constants
TILE_SIZE == 64
DEFAULT_PLAYER_SPEED == 1000
DEFAULT_ENEMY_SPEED == DEFAULT_PLAYER_SPEED \div 2
PROJECTILE_SPEED == 1500
PROJECTILE_BOUNCES == 3

\* time steps (ms) a frame can take: a short frame, a long frame
DtSet == {32, 128}

\* ---------------------------------------------------------------- entities
\* the population of the model, numbered in spawn order: the player, one left
\* turner, one right turner and one projectile in flight at a time
PlayerEntity == 1
LeftTurners == {2}
RightTurners == {3}
Enemy == LeftTurners \cup RightTurners
Projectile == {4}
Entity == {PlayerEntity} \cup Enemy \cup Projectile
\* the entities spawned with the GridReserver tag; no system removes the tag
GridReserver == {PlayerEntity} \cup Enemy

\* ------------------------------------------------------------------ vectors
ZERO == <<0, 0>>
Add(a, b) == <<a[1] + b[1], a[2] + b[2]>>
Neg(a) == <<0 - a[1], 0 - a[2]>>
Scale(a, k) == <<a[1] * k, a[2] * k>>
Directions == {<<dx, dy>> : dx \in {-1, 0, 1}, dy \in {-1, 0, 1}}
\* the sets of movement keys held down in a frame
KeySets == {{}, {"KeyD"}, {"KeyA"}, {"KeyS", "KeyD"}}
valid_directions == <<<<0, 1>>, <<0, -1>>, <<1, 0>>, <<-1, 0>>>>

\* IVec2::as_vec2().length() in thousandths, for steps with components in -1..1
Length(dir) ==
    LET sq == dir[1] * dir[1] + dir[2] * dir[2]
    IN  CASE sq = 0 -> 0
          [] sq = 1 -> 1000
          [] sq = 2 -> 1414
          [] OTHER -> 1000 * sq

\* -------------------------------------------------------------------- map
\* the wall grid of the model: row-major, top row first; the lower left
\* cell (0, 0) is a wall
SmallMap == [width |-> 3, height |-> 2,
             is_wall |-> <<FALSE, FALSE, FALSE,
                           TRUE, FALSE, FALSE>>]
Maps == {SmallMap}

\* variant of the lookup that takes a missing entry for open ground
is_wall_FailOpen(pos, map) ==
    IF pos[1] < 0 \/ pos[2] < 0 \/ pos[1] >= map.width \/ pos[2] >= map.height
    THEN TRUE
    ELSE LET flipped_y == map.height - 1 - pos[2]
             idx == flipped_y * map.width + pos[1]
         IN  IF idx + 1 \in DOMAIN map.is_wall THEN map.is_wall[idx + 1] ELSE FALSE

\* the index is computed in u32; the grids of the model (and the 80 by 80 grid
\* of generate_map) are far from the end of its range
is_wall(pos, map) ==
    IF pos[1] < 0 \/ pos[2] < 0 \/ pos[1] >= map.width \/ pos[2] >= map.height
    THEN TRUE
    ELSE LET flipped_y == map.height - 1 - pos[2]
             idx == flipped_y * map.width + pos[1]
         IN  IF idx + 1 \in DOMAIN map.is_wall THEN map.is_wall[idx + 1] ELSE TRUE

CellsOf(map) == {<<x, y>> : x \in 0..(map.width - 1), y \in 0..(map.height - 1)}

\* ------------------------------------------------------------ reservations
\* GridReservations: HashMap<IVec2, Entity>, a function on the reserved cells
EmptyReservations == [c \in {} |-> 0]
Insert(res, cell, entity) ==
    [c \in DOMAIN res \cup {cell} |-> IF c = cell THEN entity ELSE res[c]]
Remove(res, cell) == [c \in DOMAIN res \ {cell} |-> res[c]]

VARIABLES frame, map_data, live, mover, intended, bouncable, turner, transform,
          reservations, commands, removed_reservers, collision_events,
          player_died_events, enemy_died_events,
          done, moving,
          \* the last call of one of the map and motion functions on inputs of
          \* its own: PureSpec applies them, the game's systems leave it alone
          call,
          \* observations of the run, read by no system: what the last iteration
          \* of the motion update did, the cells the last sweep cleared, the
          \* despawned reservers whose entries the motion update of this frame met
          last, swept, ghost_seen

vars == <<frame, map_data, live, mover, intended, bouncable, turner, transform,
          reservations, commands, removed_reservers, collision_events,
          done, moving, last, swept, ghost_seen,
          player_died_events, enemy_died_events, call>>

\* ---------------------------------------------------------------- systems
\* the Update systems of the model; PostUpdate's sweep closes the frame
Systems == {"handle_player_input", "handle_shoot", "update_left_turners",
            "update_right_turners", "apply_deferred_input", "update_grid_movement",
            "apply_deferred_mover", "update_grid_positions",
            "check_projectile_collisions", "check_player_enemy_adjacency",
            "handle_projectile_collisions"}

\* ------------------------------------------------------------- components
NoMover == [grid_pos |-> ZERO, direction |-> ZERO, progress |-> 0, speed |-> 0]
NoBouncable == [initial |-> 0, remaining |-> 0]
NotMoving == [active |-> FALSE, dt |-> 0, todo |-> {}]
NoCall == [fn |-> "none"]
NoLast == [entity |-> 0, branch |-> "none", old_pos |-> ZERO]
\* Transform::from_xyz(0, 0, z): the world origin is the centre of the view,
\* HALF_WIDTH = 13.5 and HALF_HEIGHT = 10.5 tiles from the map's corner.  On a
\* map smaller than the view smooth_adjust_scroll clamps MapOffset and
\* TileOffset to zero; the offset spawn_player sets for the first frame shifts
\* every transform alike, which aabb_overlap does not see, so the transforms
\* are kept in map coordinates.
WorldOrigin == <<(27 * PUnit) \div 2, (21 * PUnit) \div 2>>

\* ------------------------------------------------------- motion state machine
\* variant of the increment that does not divide by the length of the step
inc_Unnormalised(speed, dt, direction, unit) ==
    (speed * dt * unit) \div (TILE_SIZE * 1000)

\* inc = speed * delta_secs / (TILE_SIZE * dist_factor), in parts of 1/unit,
\* with dt in ms and the length in thousandths
inc(speed, dt, direction, unit) ==
    (speed * dt * unit) \div (TILE_SIZE * Length(direction))

\* the per-frame progress increment, in progress units
Inc(m, dt) == inc(m.speed, dt, m.direction, PUnit)

\* variant of the gate that holds every actor, tagged or not, to the registry
StartAllowed_EveryoneGated(entity, next_tile, res, map) ==
    /\ ~is_wall(next_tile, map)
    /\ next_tile \in DOMAIN res => res[next_tile] = entity

\* variant of the gate that looks at the walls only
StartAllowed_WallsOnly(entity, next_tile, res, map) == ~is_wall(next_tile, map)

\* the gate of a start from idle
StartAllowed(entity, next_tile, res, map) ==
    LET is_tile_wall == is_wall(next_tile, map)
        is_tile_reserved == /\ entity \in GridReserver
                            /\ next_tile \in DOMAIN res
                            /\ res[next_tile] # entity
    IN  ~is_tile_wall /\ ~is_tile_reserved

\* variant of the claim that leaves the registry as it is
Claim_Forgotten(res, entity, next_tile) == res

\* a reserver claims the tile it starts to move into
Claim(res, entity, next_tile) ==
    IF entity \in GridReserver THEN Insert(res, next_tile, entity) ELSE res

\* variant of the arrival that leaves the entry of the old cell in place
Release_Never(res, entity, old_pos) == res

\* variant of the release that does not compare the occupant
Release_Unguarded(res, entity, old_pos) ==
    IF entity \in GridReserver /\ old_pos \in DOMAIN res
    THEN Remove(res, old_pos)
    ELSE res

\* a reserver frees the tile it just left, if it is the one holding it
Release(res, entity, old_pos) ==
    IF entity \in GridReserver /\ old_pos \in DOMAIN res /\ res[old_pos] = entity
    THEN Remove(res, old_pos)
    ELSE res

\* variant of the reflection that tries the vertical neighbour first
calculate_reflection_VerticalFirst(dir, grid_pos, map) ==
    LET dx == dir[1]
        dy == dir[2]
        horiz_clear == ~is_wall(Add(grid_pos, <<dx, 0>>), map)
        vert_clear == ~is_wall(Add(grid_pos, <<0, dy>>), map)
    IN  IF vert_clear THEN <<0 - dx, dy>>
        ELSE IF horiz_clear THEN <<dx, 0 - dy>>
        ELSE <<0 - dx, 0 - dy>>

\* variant of the reflection that lets the projectile slide along the wall
calculate_reflection_Sliding(dir, grid_pos, map) ==
    LET dx == dir[1]
        dy == dir[2]
        horiz_clear == ~is_wall(Add(grid_pos, <<dx, 0>>), map)
        vert_clear == ~is_wall(Add(grid_pos, <<0, dy>>), map)
    IN  IF horiz_clear THEN <<dx, 0>>
        ELSE IF vert_clear THEN <<0, dy>>
        ELSE <<0 - dx, 0 - dy>>

calculate_reflection(dir, grid_pos, map) ==
    LET dx == dir[1]
        dy == dir[2]
        horiz_clear == ~is_wall(Add(grid_pos, <<dx, 0>>), map)
        vert_clear == ~is_wall(Add(grid_pos, <<0, dy>>), map)
    IN  IF horiz_clear THEN <<dx, 0 - dy>>
        ELSE IF vert_clear THEN <<0 - dx, dy>>
        ELSE <<0 - dx, 0 - dy>>

\* variant of the bounce that drops the excess
BounceProgress_Reset(progress, current_direction, new_dir) == 0

\* progress after a bounce: the excess, rescaled by old length / new length
BounceProgress(progress, current_direction, new_dir) ==
    LET old_length == Length(current_direction)
        new_length == Length(new_dir)
    IN  IF new_length > 0 /\ old_length > 0
        THEN ((progress - PUnit) * old_length) \div new_length
        ELSE progress - PUnit

\* variant of the carry-over that drops the excess
CarryOver_Reset(progress) == 0

\* progress kept when the entity goes straight on into an open tile
CarryOver(progress) == progress - PUnit

\* variant of the turn that does not look at the walls
TurnDirection_WallsIgnored(new_dir, new_pos, map) == new_dir

\* the direction after an arrival that does not go straight on
TurnDirection(new_dir, new_pos, map) ==
    IF new_dir # ZERO /\ ~is_wall(Add(new_pos, new_dir), map) THEN new_dir ELSE ZERO

\* variant of the stop at a wall that despawns whatever stops
DespawnOnImpact_Everything(entity) == TRUE

\* whether an entity that stops at a wall is despawned: projectile.is_some()
DespawnOnImpact(entity) == entity \in Projectile

\* variant of the bounce that leaves the budget as it is
SpendBounce_Free(b) == b

\* b.remaining -= 1
SpendBounce(b) == [b EXCEPT !.remaining = b.remaining - 1]

\* State 3: the entity (progress already incremented, >= 1) arrives
Arrive(entity, m, intent, b, res, map) ==
    LET old_pos == m.grid_pos
        current_direction == m.direction
        new_pos == Add(old_pos, current_direction)
        res1 == Release(res, entity, old_pos)
        is_continuing == intent = current_direction /\ current_direction # ZERO
        can_bounce == entity \in Projectile /\ b.remaining > 0
    IN  IF is_continuing
        THEN IF ~is_wall(Add(new_pos, current_direction), map)
             THEN [mover |-> [m EXCEPT !.grid_pos = new_pos,
                                       !.progress = CarryOver(m.progress)],
                   intended |-> intent, bouncable |-> b,
                   reservations |-> res1, despawn |-> FALSE, branch |-> "continue"]
             ELSE IF can_bounce
             THEN LET new_dir == calculate_reflection(current_direction, new_pos, map)
                  IN  [mover |-> [m EXCEPT !.grid_pos = new_pos,
                                           !.direction = new_dir,
                                           !.progress = BounceProgress(m.progress, current_direction, new_dir)],
                       intended |-> new_dir,
                       bouncable |-> SpendBounce(b),
                       reservations |-> res1, despawn |-> FALSE, branch |-> "bounce"]
             ELSE [mover |-> [m EXCEPT !.grid_pos = new_pos,
                                       !.direction = ZERO,
                                       !.progress = 0],
                   intended |-> ZERO, bouncable |-> b,
                   reservations |-> res1, despawn |-> DespawnOnImpact(entity),
                   branch |-> "stop"]
        ELSE LET new_dir == intent
                 dir1 == TurnDirection(new_dir, new_pos, map)
             IN  [mover |-> [m EXCEPT !.grid_pos = new_pos,
                                      !.direction = dir1,
                                      !.progress = 0],
                  intended |-> intent, bouncable |-> b,
                  reservations |-> res1, despawn |-> FALSE, branch |-> "turn"]

\* one iteration of update_grid_movement's loop
MoveEntity(entity, m, intent, b, res, map, dt) ==
    LET same == [mover |-> m, intended |-> intent, bouncable |-> b,
                 reservations |-> res, despawn |-> FALSE, branch |-> "idle"]
    IN  IF m.direction = ZERO
        THEN LET new_dir == intent
                 next_tile == Add(m.grid_pos, new_dir)
             IN  IF new_dir # ZERO /\ StartAllowed(entity, next_tile, res, map)
                 THEN [same EXCEPT !.mover = [m EXCEPT !.direction = new_dir,
                                                       !.progress = 0],
                                   !.reservations = Claim(res, entity, next_tile),
                                   !.branch = "start"]
                 ELSE IF new_dir # ZERO THEN [same EXCEPT !.branch = "blocked"]
                 ELSE same
        ELSE IF Length(m.direction) = 0
        THEN same
        ELSE LET m1 == [m EXCEPT !.progress = m.progress + Inc(m, dt)]
             IN  IF m1.progress >= PUnit
                 THEN Arrive(entity, m1, intent, b, res, map)
                 ELSE [same EXCEPT !.mover = m1, !.branch = "advance"]

\* ------------------------------------------------------ deferred commands
Despawn(entity) == [op |-> "despawn", entity |-> entity]
DespawnedBy(cmds) == {c.entity : c \in {d \in cmds : d.op = "despawn"}}
Spawn(entity, grid_pos, dir) ==
    [op |-> "spawn", entity |-> entity, grid_pos |-> grid_pos, dir |-> dir]
SpawnsIn(cmds) == {c \in cmds : c.op = "spawn"}
SpawnOf(cmds, entity) == CHOOSE c \in SpawnsIn(cmds) : c.entity = entity

\* a sync point: the queued commands of the systems that have run are applied
ApplyDeferred ==
    LET born == {c.entity : c \in SpawnsIn(commands)}
        gone == DespawnedBy(commands) \cap (live \cup born)
    IN  /\ live' = (live \cup born) \ gone
        /\ mover' = [e \in Entity |->
              IF e \in gone THEN NoMover
              ELSE IF e \in born
              THEN [grid_pos |-> SpawnOf(commands, e).grid_pos, direction |-> ZERO,
                    progress |-> 0, speed |-> PROJECTILE_SPEED]
              ELSE mover[e]]
        /\ intended' = [e \in Entity |->
              IF e \in gone THEN ZERO
              ELSE IF e \in born THEN SpawnOf(commands, e).dir
              ELSE intended[e]]
        /\ bouncable' = [e \in Entity |->
              IF e \in gone THEN NoBouncable
              ELSE IF e \in born
              \* handle_shoot names `remaining` only; a projectile that has not
              \* bounced has initial = remaining
              THEN [initial |-> PROJECTILE_BOUNCES, remaining |-> PROJECTILE_BOUNCES]
              ELSE bouncable[e]]
        /\ turner' = [e \in Entity |-> IF e \in gone THEN ZERO ELSE turner[e]]
        /\ transform' = [e \in Entity |->
              IF e \in gone \/ e \in born THEN WorldOrigin ELSE transform[e]]
        /\ commands' = {}

\* variant in which a despawn leaves no removal behind
RemovedBy_Missed(cmds) == {}

\* the GridReserver removals a sync point adds to RemovedComponents<GridReserver>
RemovedBy(cmds) == DespawnedBy(cmds) \cap live \cap GridReserver

\* ------------------------------------------------------------------- spawn
\* spawn_player: a random in-bounds cell whose wall entry exists and is false
PlayerSpawns(map) ==
    {p \in CellsOf(map) :
        LET idx == (map.height - 1 - p[2]) * map.width + p[1]
        IN  idx + 1 \in DOMAIN map.is_wall /\ ~map.is_wall[idx + 1]}

\* find_valid_spawn's minimal squared distance to the player (32 * 32 on the
\* 80 x 80 map of the game), scaled to the map of the model
MIN_DIST_SQ == 2 * 2

\* variant of find_valid_spawn without the distance to the player
ValidSpawn_Near(pos, map, res, player_pos) ==
    /\ ~is_wall(pos, map)
    /\ \E i \in DOMAIN valid_directions : ~is_wall(Add(pos, valid_directions[i]), map)

\* find_valid_spawn: far enough from the player, not a wall, not reserved
ValidSpawn(pos, map, res, player_pos) ==
    LET dx == pos[1] - player_pos[1]
        dy == pos[2] - player_pos[2]
    IN  /\ dx * dx + dy * dy >= MIN_DIST_SQ
        /\ ~is_wall(pos, map)
        /\ pos \notin DOMAIN res
        /\ \E i \in DOMAIN valid_directions : ~is_wall(Add(pos, valid_directions[i]), map)
ValidStart(pos, dir, map) ==
    \E i \in DOMAIN valid_directions :
        dir = valid_directions[i] /\ ~is_wall(Add(pos, dir), map)

GameInit ==
    \E map \in Maps :
    \E player_pos \in PlayerSpawns(map) :
    \E pos \in [Enemy -> CellsOf(map)], dir \in [Enemy -> Directions] :
        \* the enemies are spawned one after the other, each on a free cell
        /\ \A e \in Enemy :
              /\ ValidSpawn(pos[e], map, Insert(EmptyReservations, player_pos, PlayerEntity), player_pos)
              /\ ValidStart(pos[e], dir[e], map)
        /\ \A e1, e2 \in Enemy : e1 # e2 => pos[e1] # pos[e2]
        /\ frame = 1
        /\ map_data = map
        /\ live = {PlayerEntity} \cup Enemy
        /\ mover = [e \in Entity |->
              IF e = PlayerEntity
              THEN [grid_pos |-> player_pos, direction |-> ZERO, progress |-> 0,
                    speed |-> DEFAULT_PLAYER_SPEED]
              ELSE IF e \in Enemy
              THEN [grid_pos |-> pos[e], direction |-> ZERO, progress |-> 0,
                    speed |-> DEFAULT_ENEMY_SPEED]
              ELSE NoMover]
        /\ intended = [e \in Entity |-> IF e \in Enemy THEN dir[e] ELSE ZERO]
        /\ bouncable = [e \in Entity |-> NoBouncable]
        /\ turner = [e \in Entity |-> IF e \in Enemy THEN dir[e] ELSE ZERO]
        /\ transform = [e \in Entity |-> WorldOrigin]
        /\ reservations = [c \in {player_pos} \cup {pos[e] : e \in Enemy} |->
              IF c = player_pos THEN PlayerEntity
              ELSE CHOOSE e \in Enemy : pos[e] = c]
        /\ commands = {}
        /\ removed_reservers = {}
        /\ collision_events = <<>>
        /\ player_died_events = <<>>
        /\ enemy_died_events = <<>>
        /\ done = {}
        /\ moving = NotMoving
        /\ last = NoLast
        /\ swept = {}
        /\ ghost_seen = {}

Init == GameInit /\ call = NoCall

\* ------------------------------------------------------------------ input
\* variant of the schedule without the ordering constraints
Ready_Unordered(system, after) ==
    /\ frame <= MaxFrames
    /\ ~moving.active
    /\ system \notin done

\* a system can run once in a frame, after the systems it is ordered after
Ready(system, after) ==
    /\ frame <= MaxFrames
    /\ ~moving.active
    /\ system \notin done
    /\ after \subseteq done

handle_player_input ==
    /\ Ready("handle_player_input", {"update_right_turners"})
    /\ \E keys \in KeySets :
          LET dx == (IF "KeyD" \in keys THEN 1 ELSE 0) - (IF "KeyA" \in keys THEN 1 ELSE 0)
              dy == (IF "KeyW" \in keys THEN 1 ELSE 0) - (IF "KeyS" \in keys THEN 1 ELSE 0)
          IN  intended' = [intended EXCEPT ![PlayerEntity] =
                              IF PlayerEntity \in live THEN <<dx, dy>> ELSE @]
    /\ done' = done \cup {"handle_player_input"}
    /\ UNCHANGED <<call, player_died_events, enemy_died_events, frame, map_data, live, mover, bouncable, turner, transform,
                   reservations, commands, removed_reservers, collision_events, moving, last, swept, ghost_seen>>

\* a projectile id nothing refers to any more (a despawned entity's index is
\* handed out again with a new generation)
FreeProjectiles ==
    {e \in Projectile :
        /\ e \notin live
        /\ \A c \in commands : c.entity # e
        /\ \A i \in DOMAIN collision_events : collision_events[i].projectile # e}

\* variant of handle_shoot without the wall test on the spawn cell
handle_shoot_IntoWalls ==
    /\ Ready("handle_shoot", {"update_right_turners"})
    /\ \E just_pressed \in BOOLEAN :
          IF /\ just_pressed
             /\ PlayerEntity \in live
             /\ intended[PlayerEntity] # ZERO
          THEN /\ FreeProjectiles # {}
               /\ LET dir == intended[PlayerEntity]
                      spawn_pos == Add(mover[PlayerEntity].grid_pos, dir)
                      e == CHOOSE e \in FreeProjectiles : \A f \in FreeProjectiles : e <= f
                  IN  commands' = commands \cup {Spawn(e, spawn_pos, dir)}
          ELSE commands' = commands
    /\ done' = done \cup {"handle_shoot"}
    /\ UNCHANGED <<call, player_died_events, enemy_died_events, frame, map_data, live, mover, intended, bouncable, turner, transform,
                   reservations, removed_reservers, collision_events, moving, last, swept, ghost_seen>>

handle_shoot ==
    /\ Ready("handle_shoot", {"update_right_turners"})
    /\ \E just_pressed \in BOOLEAN :
          IF /\ just_pressed
             /\ PlayerEntity \in live
             /\ intended[PlayerEntity] # ZERO
             /\ ~is_wall(Add(mover[PlayerEntity].grid_pos, intended[PlayerEntity]), map_data)
          THEN /\ FreeProjectiles # {}
               /\ LET dir == intended[PlayerEntity]
                      spawn_pos == Add(mover[PlayerEntity].grid_pos, dir)
                      e == CHOOSE e \in FreeProjectiles : \A f \in FreeProjectiles : e <= f
                  IN  commands' = commands \cup {Spawn(e, spawn_pos, dir)}
          ELSE commands' = commands
    /\ done' = done \cup {"handle_shoot"}
    /\ UNCHANGED <<call, player_died_events, enemy_died_events, frame, map_data, live, mover, intended, bouncable, turner, transform,
                   reservations, removed_reservers, collision_events, moving, last, swept, ghost_seen>>

\* ---------------------------------------------------------------- enemy AI
is_blocked(target_pos, self_entity, res, map) ==
    IF is_wall(target_pos, map) THEN TRUE
    ELSE IF target_pos \in DOMAIN res /\ res[target_pos] # self_entity THEN TRUE
    ELSE FALSE

LeftDir(forward_dir) == <<forward_dir[2], 0 - forward_dir[1]>>
RightDir(forward_dir) == <<0 - forward_dir[2], forward_dir[1]>>

\* variant of the turn priority that tries the second side before the first
TurnChoice_SecondFirst(entity, first, second, forward_dir) ==
    LET current_pos == mover[entity].grid_pos
    IN  IF ~is_blocked(Add(current_pos, second), entity, reservations, map_data) THEN second
        ELSE IF ~is_blocked(Add(current_pos, first), entity, reservations, map_data) THEN first
        ELSE Neg(forward_dir)

\* the direction a stopped turner takes: first, second, else back
TurnChoice(entity, first, second, forward_dir) ==
    LET current_pos == mover[entity].grid_pos
    IN  IF ~is_blocked(Add(current_pos, first), entity, reservations, map_data) THEN first
        ELSE IF ~is_blocked(Add(current_pos, second), entity, reservations, map_data) THEN second
        ELSE Neg(forward_dir)

LeftTurnerDir(entity) ==
    LET forward_dir == turner[entity]
    IN  TurnChoice(entity, LeftDir(forward_dir), RightDir(forward_dir), forward_dir)

RightTurnerDir(entity) ==
    LET forward_dir == turner[entity]
    IN  TurnChoice(entity, RightDir(forward_dir), LeftDir(forward_dir), forward_dir)

\* The two AI systems read and write only the turners' IntendedDirection and
\* last_known_direction, and read the registry and the cells, which no other
\* system changes before the motion update: their place among the systems that
\* precede the motion update changes no state, and the model runs them first.
update_left_turners ==
    /\ done = {}
    /\ Ready("update_left_turners", {})
    /\ intended' = [e \in Entity |->
          IF e \in LeftTurners \cap live /\ intended[e] = ZERO
          THEN LeftTurnerDir(e) ELSE intended[e]]
    /\ turner' = [e \in Entity |->
          IF e \in LeftTurners \cap live
          THEN (IF intended[e] # ZERO THEN intended[e] ELSE LeftTurnerDir(e))
          ELSE turner[e]]
    /\ done' = done \cup {"update_left_turners"}
    /\ swept' = {}
    /\ UNCHANGED <<call, player_died_events, enemy_died_events, frame, map_data, live, mover, bouncable, transform,
                   reservations, commands, removed_reservers, collision_events,
                   moving, last, ghost_seen>>

update_right_turners ==
    /\ done = {"update_left_turners"}
    /\ Ready("update_right_turners", {})
    /\ intended' = [e \in Entity |->
          IF e \in RightTurners \cap live /\ intended[e] = ZERO
          THEN RightTurnerDir(e) ELSE intended[e]]
    /\ turner' = [e \in Entity |->
          IF e \in RightTurners \cap live
          THEN (IF intended[e] # ZERO THEN intended[e] ELSE RightTurnerDir(e))
          ELSE turner[e]]
    /\ done' = done \cup {"update_right_turners"}
    /\ UNCHANGED <<call, player_died_events, enemy_died_events, frame, map_data, live, mover, bouncable, transform,
                   reservations, commands, removed_reservers, collision_events, moving, last, swept, ghost_seen>>

\* the sync point between the Input set and UpdateMover
apply_deferred_input ==
    /\ Ready("apply_deferred_input", {"handle_player_input", "handle_shoot"})
    /\ ApplyDeferred
    /\ removed_reservers' = removed_reservers \cup RemovedBy(commands)
    /\ done' = done \cup {"apply_deferred_input"}
    /\ UNCHANGED <<call, player_died_events, enemy_died_events, frame, map_data, reservations, collision_events, moving, last, swept, ghost_seen>>

\* ----------------------------------------------------------- motion update
\* update_grid_movement starts: the frame's time step, the entities to visit
update_grid_movement_begin ==
    /\ Ready("update_grid_movement",
             {"apply_deferred_input", "update_left_turners", "update_right_turners"})
    /\ \E dt \in DtSet :
          IF live = {}
          THEN /\ moving' = NotMoving
               /\ done' = done \cup {"update_grid_movement"}
          ELSE /\ moving' = [active |-> TRUE, dt |-> dt, todo |-> live]
               /\ done' = done
    /\ ghost_seen' = {a \in removed_reservers :
                         \E c \in DOMAIN reservations : reservations[c] = a}
    /\ UNCHANGED <<call, player_died_events, enemy_died_events, frame, map_data, live, mover, intended, bouncable, turner, transform,
                   reservations, commands, removed_reservers, collision_events,
                   last, swept>>

\* one iteration of the loop.  The query visits the entities table by table, in
\* the order the tables were created: the player's (spawn_player), the left
\* turners', the right turners' (spawn_enemies, ordered after spawn_player), the
\* projectiles' -- the order of the entity numbers.
update_grid_movement_step(entity) ==
    /\ moving.active
    /\ entity \in moving.todo
    /\ \A other \in moving.todo : entity <= other
    /\ LET r == MoveEntity(entity, mover[entity], intended[entity], bouncable[entity],
                           reservations, map_data, moving.dt)
       IN  /\ mover' = [mover EXCEPT ![entity] = r.mover]
           /\ intended' = [intended EXCEPT ![entity] = r.intended]
           /\ bouncable' = [bouncable EXCEPT ![entity] = r.bouncable]
           /\ reservations' = r.reservations
           /\ commands' = IF r.despawn THEN commands \cup {Despawn(entity)} ELSE commands
           /\ last' = [entity |-> entity, branch |-> r.branch, old_pos |-> mover[entity].grid_pos]
    /\ IF moving.todo = {entity}
       THEN /\ moving' = NotMoving
            /\ done' = done \cup {"update_grid_movement"}
       ELSE /\ moving' = [moving EXCEPT !.todo = @ \ {entity}]
            /\ done' = done
    /\ UNCHANGED <<call, player_died_events, enemy_died_events, frame, map_data, live, turner, transform, removed_reservers,
                   collision_events, swept, ghost_seen>>

\* the sync point between UpdateMover and the systems ordered after it
apply_deferred_mover ==
    /\ Ready("apply_deferred_mover", {"update_grid_movement"})
    /\ ApplyDeferred
    /\ removed_reservers' = removed_reservers \cup RemovedBy(commands)
    /\ done' = done \cup {"apply_deferred_mover"}
    /\ UNCHANGED <<call, player_died_events, enemy_died_events, frame, map_data, reservations, collision_events, moving, last, swept, ghost_seen>>

\* the interpolated position, in progress units
EffectivePos(m) == Add(Scale(m.grid_pos, PUnit), Scale(m.direction, m.progress))

\* variant of the projection that also folds the progress it draws back to 0
update_grid_positions_Folding ==
    /\ Ready("update_grid_positions", {"apply_deferred_mover"})
    /\ transform' = [e \in Entity |->
          IF e \in live THEN EffectivePos(mover[e]) ELSE transform[e]]
    /\ mover' = [e \in Entity |-> [mover[e] EXCEPT !.progress = 0]]
    /\ done' = done \cup {"update_grid_positions"}
    /\ UNCHANGED <<call, player_died_events, enemy_died_events, frame, map_data, live, intended, bouncable, turner,
                   reservations, commands, removed_reservers, collision_events, moving, last, swept, ghost_seen>>

update_grid_positions ==
    /\ Ready("update_grid_positions", {"apply_deferred_mover"})
    /\ transform' = [e \in Entity |->
          IF e \in live THEN EffectivePos(mover[e]) ELSE transform[e]]
    /\ done' = done \cup {"update_grid_positions"}
    /\ UNCHANGED <<call, player_died_events, enemy_died_events, frame, map_data, live, mover, intended, bouncable, turner,
                   reservations, commands, removed_reservers, collision_events, moving, last, swept, ghost_seen>>

\* ---------------------------------------------------------------- collider
ColliderSize == TILE_SIZE \div 2
\* size * COLLIDER_EXPANSION_FACTOR (2.25)
Expanded(size) == (size * 9) \div 4

\* positions in progress units, sizes in pixels; both sides of each comparison
\* are multiplied by 2 * PUnit
aabb_overlap(pos1, size1, pos2, size2) ==
    LET min1(i) == 2 * TILE_SIZE * pos1[i] - PUnit * size1
        max1(i) == 2 * TILE_SIZE * pos1[i] + PUnit * size1
        min2(i) == 2 * TILE_SIZE * pos2[i] - PUnit * size2
        max2(i) == 2 * TILE_SIZE * pos2[i] + PUnit * size2
    IN  min1(1) < max2(1) /\ max1(1) > min2(1) /\ min1(2) < max2(2) /\ max1(2) > min2(2)

\* variant of the projectile check without the first-leg exemption of the player
ProjectileVictim_NoImmunity(proj) ==
    LET target_tile == Add(mover[proj].grid_pos, mover[proj].direction)
    IN  IF mover[proj].direction = ZERO THEN 0
        ELSE IF target_tile \notin DOMAIN reservations THEN 0
        ELSE LET victim_entity == reservations[target_tile]
             IN  IF victim_entity \notin live THEN 0
                 ELSE IF aabb_overlap(transform[proj], ColliderSize,
                                      transform[victim_entity], ColliderSize)
                 THEN victim_entity
                 ELSE 0

\* variant of the projectile check without the narrow phase
ProjectileVictim_NoNarrowPhase(proj) ==
    LET target_tile == Add(mover[proj].grid_pos, mover[proj].direction)
    IN  IF mover[proj].direction = ZERO THEN 0
        ELSE IF target_tile \notin DOMAIN reservations THEN 0
        ELSE LET victim_entity == reservations[target_tile]
                 bounced == IF bouncable[proj].initial >= bouncable[proj].remaining
                            THEN bouncable[proj].initial - bouncable[proj].remaining
                            ELSE 0
             IN  IF victim_entity \notin live THEN 0
                 ELSE IF victim_entity = PlayerEntity /\ bounced < 1 THEN 0
                 ELSE victim_entity

\* variant of the projectile check that reports an occupant without components
ProjectileVictim_GhostsHit(proj) ==
    LET target_tile == Add(mover[proj].grid_pos, mover[proj].direction)
    IN  IF mover[proj].direction = ZERO THEN 0
        ELSE IF target_tile \notin DOMAIN reservations THEN 0
        ELSE LET victim_entity == reservations[target_tile]
                 is_player == victim_entity = PlayerEntity
                 bounced == IF bouncable[proj].initial >= bouncable[proj].remaining
                            THEN bouncable[proj].initial - bouncable[proj].remaining
                            ELSE 0
             IN  IF victim_entity \notin live THEN victim_entity
                 ELSE IF is_player /\ bounced < 1 THEN 0
                 ELSE IF aabb_overlap(transform[proj], ColliderSize,
                                      transform[victim_entity], ColliderSize)
                 THEN victim_entity
                 ELSE 0

\* the victim a projectile hits this frame, or 0
ProjectileVictim(proj) ==
    LET target_tile == Add(mover[proj].grid_pos, mover[proj].direction)
    IN  IF mover[proj].direction = ZERO THEN 0
        ELSE IF target_tile \notin DOMAIN reservations THEN 0
        ELSE LET victim_entity == reservations[target_tile]
                 is_player == victim_entity = PlayerEntity
                 bounced == IF bouncable[proj].initial >= bouncable[proj].remaining
                            THEN bouncable[proj].initial - bouncable[proj].remaining
                            ELSE 0
             IN  IF victim_entity \notin live THEN 0
                 ELSE IF is_player /\ bounced < 1 THEN 0
                 ELSE IF aabb_overlap(transform[proj], ColliderSize,
                                      transform[victim_entity], ColliderSize)
                 THEN victim_entity
                 ELSE 0

RECURSIVE CollisionsOf(_)
\* the events of one run, in the order the projectiles are visited
CollisionsOf(projs) ==
    IF projs = {} THEN <<>>
    ELSE LET p == CHOOSE p \in projs : \A q \in projs : p <= q
             rest == CollisionsOf(projs \ {p})
         IN  IF ProjectileVictim(p) # 0
             THEN <<[projectile |-> p, victim |-> ProjectileVictim(p)]>> \o rest
             ELSE rest

check_projectile_collisions ==
    /\ Ready("check_projectile_collisions", {"update_right_turners"})
    /\ collision_events' = collision_events \o CollisionsOf(Projectile \cap live)
    /\ done' = done \cup {"check_projectile_collisions"}
    /\ UNCHANGED <<call, player_died_events, enemy_died_events, frame, map_data, live, mover, intended, bouncable, turner, transform,
                   reservations, commands, removed_reservers, moving, last, swept, ghost_seen>>

DIRECTIONS == <<<<0, 1>>, <<0, -1>>, <<-1, 0>>, <<1, 0>>,
                <<-1, 1>>, <<1, 1>>, <<-1, -1>>, <<1, -1>>>>

\* whether probing DIRECTIONS[i] finds an enemy overlapping the player
AdjacentHit(i) ==
    LET adjacent_pos == Add(mover[PlayerEntity].grid_pos, DIRECTIONS[i])
    IN  /\ adjacent_pos \in DOMAIN reservations
        /\ reservations[adjacent_pos] \in Enemy \cap live
        /\ aabb_overlap(transform[PlayerEntity], Expanded(ColliderSize),
                        transform[reservations[adjacent_pos]], Expanded(ColliderSize))

\* variant of the adjacency check that goes on after the first overlap
AdjacencyHits_NoBreak ==
    IF PlayerEntity \notin live THEN <<>>
    ELSE LET hits == SelectSeq([i \in DOMAIN DIRECTIONS |-> i], AdjacentHit)
         IN  [k \in DOMAIN hits |->
                 reservations[Add(mover[PlayerEntity].grid_pos, DIRECTIONS[hits[k]])]]

\* the enemies the adjacency check kills, in the order of the probes: the loop
\* leaves at the first overlap
AdjacencyHits ==
    IF PlayerEntity \notin live THEN <<>>
    ELSE LET hits == SelectSeq([i \in DOMAIN DIRECTIONS |-> i], AdjacentHit)
         IN  IF hits = <<>> THEN <<>>
             ELSE <<reservations[Add(mover[PlayerEntity].grid_pos, DIRECTIONS[hits[1]])]>>

check_player_enemy_adjacency ==
    /\ Ready("check_player_enemy_adjacency", {"apply_deferred_mover"})
    /\ commands' = commands
          \cup {Despawn(PlayerEntity) : i \in DOMAIN AdjacencyHits}
          \cup {Despawn(AdjacencyHits[i]) : i \in DOMAIN AdjacencyHits}
    /\ player_died_events' = player_died_events
          \o [i \in DOMAIN AdjacencyHits |-> transform[PlayerEntity]]
    /\ enemy_died_events' = enemy_died_events
          \o [i \in DOMAIN AdjacencyHits |-> transform[AdjacencyHits[i]]]
    /\ done' = done \cup {"check_player_enemy_adjacency"}
    /\ UNCHANGED <<call, frame, map_data, live, mover, intended, bouncable, turner, transform,
                   reservations, removed_reservers, collision_events, moving, last, swept, ghost_seen>>

\* ------------------------------------------------------------- projectile
\* the positions of the victims of the queued collisions that are of one kind
DiedPositions(kind) ==
    LET hits == SelectSeq(collision_events, LAMBDA ev : ev.victim \in live \cap kind)
    IN  [i \in DOMAIN hits |-> transform[hits[i].victim]]

handle_projectile_collisions ==
    /\ Ready("handle_projectile_collisions", {"update_right_turners"})
    /\ commands' = commands
          \cup {Despawn(collision_events[i].projectile) : i \in DOMAIN collision_events}
          \cup {Despawn(collision_events[i].victim) :
                   i \in {j \in DOMAIN collision_events :
                             collision_events[j].victim \in live \cap ({PlayerEntity} \cup Enemy)}}
    /\ collision_events' = <<>>
    /\ player_died_events' = player_died_events \o DiedPositions({PlayerEntity})
    /\ enemy_died_events' = enemy_died_events \o DiedPositions(Enemy)
    /\ done' = done \cup {"handle_projectile_collisions"}
    /\ UNCHANGED <<call, frame, map_data, live, mover, intended, bouncable, turner, transform,
                   reservations, removed_reservers, moving, last, swept, ghost_seen>>

\* ------------------------------------------------------------------ sweep
RECURSIVE RemoveAll(_, _)
RemoveAll(res, cells) ==
    IF cells = {} THEN res
    ELSE LET cell == CHOOSE c \in cells : TRUE
         IN  RemoveAll(Remove(res, cell), cells \ {cell})

\* variant of the sweep that clears one cell only
cleanup_first_cell_only(res, removed_set) ==
    LET cells_to_clear == {cell \in DOMAIN res : res[cell] \in removed_set}
    IN  IF cells_to_clear = {} THEN res
        ELSE Remove(res, CHOOSE cell \in cells_to_clear : TRUE)

\* variant of the sweep with the filter turned round
cleanup_inverted_filter(res, removed_set) ==
    IF removed_set = {} THEN res
    ELSE LET cells_to_clear == {cell \in DOMAIN res : res[cell] \notin removed_set}
         IN  RemoveAll(res, cells_to_clear)

cleanup_dangling_reservations(res, removed_set) ==
    IF removed_set = {} THEN res
    ELSE LET cells_to_clear == {cell \in DOMAIN res : res[cell] \in removed_set}
         IN  RemoveAll(res, cells_to_clear)

\* the end of the frame: the commands still queued are applied when Update
\* ends, then PostUpdate runs the sweep on the removals of this frame
PostUpdate ==
    /\ frame <= MaxFrames
    /\ ~moving.active
    /\ done = Systems
    /\ ApplyDeferred
    /\ reservations' = cleanup_dangling_reservations(
                          reservations, removed_reservers \cup RemovedBy(commands))
    /\ removed_reservers' = {}
    /\ done' = {}
    /\ frame' = frame + 1
    /\ last' = NoLast
    /\ swept' = DOMAIN reservations \ DOMAIN reservations'
    /\ ghost_seen' = {}
    \* the deaths written in this frame have been read by the effects, which
    \* are not part of the model
    /\ player_died_events' = <<>>
    /\ enemy_died_events' = <<>>
    /\ UNCHANGED <<call, map_data, collision_events, moving>>

Next ==
    \/ handle_player_input
    \/ handle_shoot
    \/ update_left_turners
    \/ update_right_turners
    \/ apply_deferred_input
    \/ update_grid_movement_begin
    \/ \E entity \in Entity : update_grid_movement_step(entity)
    \/ apply_deferred_mover
    \/ update_grid_positions
    \/ check_projectile_collisions
    \/ check_player_enemy_adjacency
    \/ handle_projectile_collisions
    \/ PostUpdate

Spec == Init /\ [][Next]_vars

\* ------------------------------------------- the functions on their own inputs
\* wall grids of up to MaxSide by MaxSide cells, with wall vectors of every
\* length up to the number of cells: MapData's fields are public and nothing
\* ties the length of is_wall to width * height
BoolSeqs(n) == UNION {[1..k -> BOOLEAN] : k \in 0..n}
PureMaps == UNION {{[width |-> w, height |-> h, is_wall |-> v] : v \in BoolSeqs(w * h)} :
                      w \in 1..MaxSide, h \in 1..MaxSide}
\* positions inside and one cell outside the largest grid
PurePositions == {<<x, y>> : x \in (-1)..MaxSide, y \in (-1)..MaxSide}

unch_game == <<frame, map_data, live, mover, intended, bouncable, turner, transform,
               reservations, commands, removed_reservers, collision_events,
               player_died_events, enemy_died_events, done, moving,
               last, swept, ghost_seen>>

\* the speeds, frame times (ms) and resolutions the increment is computed for:
\* those of the game, and a slow mover over a long frame in thousandths
PureSpeeds == {100, DEFAULT_ENEMY_SPEED, DEFAULT_PLAYER_SPEED, PROJECTILE_SPEED}
PureDts == DtSet \cup {640}
PureUnits == {PUnit, 1000}

\* the calls that are made: the function and its arguments
PureInit ==
    \* one start of the game: the functions read none of its state
    /\ GameInit
    /\ \A e \in Enemy : intended[e] = <<-1, 0>>
    /\ \A e \in LeftTurners : mover[e].grid_pos = <<2, 0>>
    /\ \/ \E pos \in PurePositions, map \in PureMaps :
             call = [fn |-> "is_wall", pos |-> pos, map |-> map]
       \/ \E dir \in Directions, grid_pos \in PurePositions, map \in PureMaps :
             call = [fn |-> "calculate_reflection", dir |-> dir,
                     grid_pos |-> grid_pos, map |-> map]
       \/ \E speed \in PureSpeeds, dt \in PureDts,
             direction \in Directions \ {ZERO}, unit \in PureUnits :
             call = [fn |-> "inc", speed |-> speed, dt |-> dt,
                     direction |-> direction, unit |-> unit]

\* whether the call has returned
Returned == "result" \in DOMAIN call

call_is_wall ==
    /\ call.fn = "is_wall"
    /\ ~Returned
    /\ call' = [fn |-> "is_wall", pos |-> call.pos, map |-> call.map,
                result |-> is_wall(call.pos, call.map)]
    /\ UNCHANGED unch_game

call_calculate_reflection ==
    /\ call.fn = "calculate_reflection"
    /\ ~Returned
    /\ call' = [fn |-> "calculate_reflection", dir |-> call.dir,
                grid_pos |-> call.grid_pos, map |-> call.map,
                result |-> calculate_reflection(call.dir, call.grid_pos, call.map)]
    /\ UNCHANGED unch_game

call_inc ==
    /\ call.fn = "inc"
    /\ ~Returned
    /\ call' = [fn |-> "inc", speed |-> call.speed, dt |-> call.dt,
                direction |-> call.direction, unit |-> call.unit,
                result |-> inc(call.speed, call.dt, call.direction, call.unit)]
    /\ UNCHANGED unch_game

PureNext ==
    \/ call_is_wall
    \/ call_calculate_reflection
    \/ call_inc

PureSpec == PureInit /\ [][PureNext]_vars

\* ------------------------------------------------- one actor on its own
\* An actor as it is spawned or at rest, alone on the map, under the motion
\* update and the sync point after it, frame after frame: a projectile one
\* cell from the open cell of its shooter, a player or an enemy on an open
\* cell with an intent its input or AI system can have written.  Nothing
\* else acts on a lone actor's GridMover, and the frames are not counted.
\* a second wall grid for the lone actor, with a wall on the right-hand edge
\* that a diagonal flight can meet from either side
EdgeMap == [width |-> 4, height |-> 3,
            is_wall |-> <<FALSE, FALSE, FALSE, FALSE,
                          FALSE, FALSE, FALSE, TRUE,
                          FALSE, FALSE, FALSE, FALSE>>]
SoloMaps == Maps \cup {EdgeMap}

SpawnSpeed(e) ==
    IF e = PlayerEntity THEN DEFAULT_PLAYER_SPEED
    ELSE IF e \in Enemy THEN DEFAULT_ENEMY_SPEED
    ELSE PROJECTILE_SPEED

SoloInit ==
    \E map \in SoloMaps, e \in Entity :
    \E pos \in CellsOf(map), dir \in Directions :
        /\ ~is_wall(pos, map)
        /\ e \in Projectile => dir # ZERO /\ ~is_wall(Add(pos, Neg(dir)), map)
        /\ e \in Enemy => \E i \in DOMAIN valid_directions : dir = valid_directions[i]
        /\ frame = 1
        /\ map_data = map
        /\ live = {e}
        /\ mover = [x \in Entity |->
              IF x = e
              THEN [grid_pos |-> pos, direction |-> ZERO, progress |-> 0,
                    speed |-> SpawnSpeed(e)]
              ELSE NoMover]
        /\ intended = [x \in Entity |-> IF x = e THEN dir ELSE ZERO]
        /\ bouncable = [x \in Entity |->
              IF x = e /\ e \in Projectile
              THEN [initial |-> PROJECTILE_BOUNCES, remaining |-> PROJECTILE_BOUNCES]
              ELSE NoBouncable]
        /\ turner = [x \in Entity |-> IF x = e /\ e \in Enemy THEN dir ELSE ZERO]
        /\ transform = [x \in Entity |-> WorldOrigin]
        /\ reservations = IF e \in GridReserver
                          THEN Insert(EmptyReservations, pos, e)
                          ELSE EmptyReservations
        /\ commands = {}
        /\ removed_reservers = {}
        /\ collision_events = <<>>
        /\ player_died_events = <<>>
        /\ enemy_died_events = <<>>
        /\ done = {}
        /\ moving = NotMoving
        /\ last = NoLast
        /\ swept = {}
        /\ ghost_seen = {}
        /\ call = NoCall

\* update_grid_movement begins: a frame of some length
solo_begin ==
    /\ ~moving.active
    /\ commands = {}
    /\ live # {}
    /\ \E dt \in DtSet : moving' = [active |-> TRUE, dt |-> dt, todo |-> live]
    /\ UNCHANGED <<call, player_died_events, enemy_died_events, frame, map_data, live,
                   mover, intended, bouncable, turner, transform, reservations, commands,
                   removed_reservers, collision_events, done, last, swept, ghost_seen>>

\* the sync point after UpdateMover applies the despawn the update queued
solo_sync ==
    /\ ~moving.active
    /\ commands # {}
    /\ ApplyDeferred
    /\ UNCHANGED <<call, player_died_events, enemy_died_events, frame, map_data,
                   reservations, removed_reservers, collision_events, done, moving,
                   last, swept, ghost_seen>>

SoloNext ==
    \/ solo_begin
    \/ \E entity \in Entity : update_grid_movement_step(entity)
    \/ solo_sync

SoloSpec == SoloInit /\ [][SoloNext]_vars

\* the schedule runs Update in every frame: the lone actor's frames go on
SoloFairSpec == SoloInit /\ [][SoloNext]_vars /\ WF_vars(SoloNext)

\* ------------------------------------- a frame with a despawned occupant
\* The rest of a frame from the sync point before UpdateMover on, in which
\* handle_projectile_collisions has run before that sync point and has
\* destroyed an enemy an earlier projectile hit: the enemy is gone, its
\* registry entry stays until PostUpdate, and a later projectile is in flight
\* or has just been fired.  The player and the other enemy are at rest, the
\* enemy out of the player's reach; the enemy destroyed is a right turner, and
\* the player still holds the keys it fired with.
Chebyshev(a, b) ==
    LET dx == IF a[1] >= b[1] THEN a[1] - b[1] ELSE b[1] - a[1]
        dy == IF a[2] >= b[2] THEN a[2] - b[2] ELSE b[2] - a[2]
    IN  IF dx >= dy THEN dx ELSE dy

GhostInit ==
    \E map \in Maps, dead \in RightTurners :
    \E player_pos \in PlayerSpawns(map), aim \in Directions \ {ZERO} :
    \E ghost_cell \in CellsOf(map) :
    \E pos \in [Enemy \ {dead} -> CellsOf(map)], dir \in [Enemy \ {dead} -> Directions] :
    \E proj_pos \in CellsOf(map), proj_dir \in Directions, proj_progress \in 0..(PUnit - 1) :
        /\ ~is_wall(ghost_cell, map) /\ ghost_cell # player_pos
        /\ \A e \in Enemy \ {dead} :
              /\ ~is_wall(pos[e], map)
              /\ pos[e] # ghost_cell
              /\ Chebyshev(pos[e], player_pos) >= 2
              /\ ValidStart(pos[e], dir[e], map)
        \* the projectile: fired in this frame (at rest one cell from the
        \* player, with the player's intent) or in flight since an earlier one
        /\ ~is_wall(proj_pos, map)
        /\ proj_dir = ZERO => proj_pos = Add(player_pos, aim) /\ proj_progress = 0
        /\ proj_dir # ZERO => ~is_wall(Add(proj_pos, proj_dir), map) /\ aim = proj_dir
        /\ frame = MaxFrames
        /\ map_data = map
        /\ live = {PlayerEntity} \cup (Enemy \ {dead}) \cup Projectile
        /\ mover = [e \in Entity |->
              IF e = PlayerEntity
              THEN [grid_pos |-> player_pos, direction |-> ZERO, progress |-> 0,
                    speed |-> DEFAULT_PLAYER_SPEED]
              ELSE IF e \in Enemy \ {dead}
              THEN [grid_pos |-> pos[e], direction |-> ZERO, progress |-> 0,
                    speed |-> DEFAULT_ENEMY_SPEED]
              ELSE IF e \in Projectile
              THEN [grid_pos |-> proj_pos, direction |-> proj_dir,
                    progress |-> proj_progress, speed |-> PROJECTILE_SPEED]
              ELSE NoMover]
        /\ intended = [e \in Entity |->
              IF e = PlayerEntity THEN aim
              ELSE IF e \in Enemy \ {dead} THEN dir[e]
              ELSE IF e \in Projectile THEN (IF proj_dir = ZERO THEN aim ELSE proj_dir)
              ELSE ZERO]
        /\ bouncable = [e \in Entity |->
              IF e \in Projectile
              THEN [initial |-> PROJECTILE_BOUNCES, remaining |-> PROJECTILE_BOUNCES]
              ELSE NoBouncable]
        /\ turner = [e \in Entity |-> IF e \in Enemy \ {dead} THEN dir[e] ELSE ZERO]
        /\ transform = [e \in Entity |->
              IF e = PlayerEntity THEN Scale(player_pos, PUnit)
              ELSE IF e \in Enemy \ {dead} THEN Scale(pos[e], PUnit)
              ELSE IF e \in Projectile /\ proj_dir # ZERO
              THEN Add(Scale(proj_pos, PUnit), Scale(proj_dir, proj_progress))
              ELSE WorldOrigin]
        /\ reservations = [c \in {player_pos, ghost_cell} \cup {pos[e] : e \in Enemy \ {dead}} |->
              IF c = player_pos THEN PlayerEntity
              ELSE IF c = ghost_cell THEN dead
              ELSE CHOOSE e \in Enemy \ {dead} : pos[e] = c]
        /\ commands = {}
        /\ removed_reservers = {dead}
        /\ collision_events = <<>>
        /\ player_died_events = <<>>
        /\ enemy_died_events = <<Scale(ghost_cell, PUnit)>>
        /\ done = {"update_left_turners", "update_right_turners", "handle_player_input",
                   "handle_shoot", "handle_projectile_collisions", "apply_deferred_input"}
        /\ moving = NotMoving
        /\ last = NoLast
        /\ swept = {}
        /\ ghost_seen = {}
        /\ call = NoCall

GhostNext ==
    \/ update_grid_movement_begin
    \/ \E entity \in Entity : update_grid_movement_step(entity)
    \/ apply_deferred_mover
    \/ update_grid_positions
    \/ check_projectile_collisions
    \/ check_player_enemy_adjacency
    \/ PostUpdate

GhostSpec == GhostInit /\ [][GhostNext]_vars

\* ------------------------------------------------ the turners at a stop
\* The start of a frame after the first, with the player and the enemies at
\* rest on a map wide enough for both sides of a turner to be open.  An enemy
\* is at rest either because the motion update stopped it at a wall (its
\* intent is zero, last_known_direction points at the wall) or because the
\* cell it intends to enter is registered to another actor (its intent and
\* last_known_direction point at that cell).  The two AI systems run.
ValidDirs == {valid_directions[i] : i \in DOMAIN valid_directions}

TurnInit ==
    \E map \in SoloMaps :
    \E player_pos \in PlayerSpawns(map) :
    \E pos \in [Enemy -> CellsOf(map)], f \in [Enemy -> ValidDirs] :
    \E stopped \in SUBSET Enemy :
        /\ \A e \in Enemy : ~is_wall(pos[e], map) /\ pos[e] # player_pos
        /\ \A e1, e2 \in Enemy : e1 # e2 => pos[e1] # pos[e2]
        /\ \A e \in stopped : is_wall(Add(pos[e], f[e]), map)
        /\ \A e \in Enemy \ stopped :
              Add(pos[e], f[e]) \in {player_pos} \cup {pos[o] : o \in Enemy \ {e}}
        /\ frame = 2
        /\ map_data = map
        /\ live = {PlayerEntity} \cup Enemy
        /\ mover = [e \in Entity |->
              IF e = PlayerEntity
              THEN [grid_pos |-> player_pos, direction |-> ZERO, progress |-> 0,
                    speed |-> DEFAULT_PLAYER_SPEED]
              ELSE IF e \in Enemy
              THEN [grid_pos |-> pos[e], direction |-> ZERO, progress |-> 0,
                    speed |-> DEFAULT_ENEMY_SPEED]
              ELSE NoMover]
        /\ intended = [e \in Entity |-> IF e \in Enemy \ stopped THEN f[e] ELSE ZERO]
        /\ bouncable = [e \in Entity |-> NoBouncable]
        /\ turner = [e \in Entity |-> IF e \in Enemy THEN f[e] ELSE ZERO]
        /\ transform = [e \in Entity |->
              IF e = PlayerEntity THEN Scale(player_pos, PUnit)
              ELSE IF e \in Enemy THEN Scale(pos[e], PUnit)
              ELSE WorldOrigin]
        /\ reservations = [c \in {player_pos} \cup {pos[e] : e \in Enemy} |->
              IF c = player_pos THEN PlayerEntity
              ELSE CHOOSE e \in Enemy : pos[e] = c]
        /\ commands = {}
        /\ removed_reservers = {}
        /\ collision_events = <<>>
        /\ player_died_events = <<>>
        /\ enemy_died_events = <<>>
        /\ done = {}
        /\ moving = NotMoving
        /\ last = NoLast
        /\ swept = {}
        /\ ghost_seen = {}
        /\ call = NoCall

TurnNext ==
    \/ update_left_turners
    \/ update_right_turners

TurnSpec == TurnInit /\ [][TurnNext]_vars

\* ------------------------------------------------------------------ claims
TickBoundary == done = {} /\ ~moving.active
LiveReservers == live \cap GridReserver
Cell(e) == mover[e].grid_pos
InTransit(e) == mover[e].direction # ZERO
Dest(e) == Add(mover[e].grid_pos, mover[e].direction)
Owns(e, cell) == cell \in DOMAIN reservations /\ reservations[cell] = e
\* the entity the motion update visits in this step
Visits(e) == moving.active /\ e \in moving.todo /\ e \notin moving'.todo
MotionDone == "update_grid_movement" \in done

\* C1: at every tick boundary no two live reservers share a cell, and no
\* reserver in transit heads into the cell or the destination of another.
C1_NoSharedCell ==
    TickBoundary =>
        \A a, b \in LiveReservers :
            a # b =>
                /\ Cell(a) # Cell(b)
                /\ InTransit(a) => Dest(a) # Cell(b)
                /\ (InTransit(a) /\ InTransit(b)) => Dest(a) # Dest(b)

\* C2: at every tick boundary the registry maps the cell of every stationary
\* live reserver, and the destination of every live reserver in transit, to it.
C2_ReserverRegistered ==
    TickBoundary =>
        \A a \in LiveReservers :
            IF InTransit(a) THEN Owns(a, Dest(a)) ELSE Owns(a, Cell(a))

\* C3: both collision checks of a frame run after that frame's motion update.
C3_ChecksAfterMotion ==
    /\ "check_projectile_collisions" \in done => MotionDone
    /\ "check_player_enemy_adjacency" \in done => MotionDone

\* C4: the motion update starts the step of a stationary actor with a non-zero
\* intent iff the target is no wall and (the actor is no reserver, or the target
\* has no entry, or its entry is the actor); otherwise the actor's cell,
\* direction, progress and the registry stay as they are.
C4_StartIff ==
    [][\A e \in Entity :
          (Visits(e) /\ ~InTransit(e) /\ intended[e] # ZERO) =>
              LET target == Add(Cell(e), intended[e])
                  free == /\ ~is_wall(target, map_data)
                          /\ \/ e \notin GridReserver
                             \/ target \notin DOMAIN reservations
                             \/ reservations[target] = e
              IN  IF free
                  THEN /\ mover'[e].direction = intended[e]
                       /\ mover'[e].progress = 0
                       /\ mover'[e].grid_pos = Cell(e)
                  ELSE /\ mover'[e] = mover[e]
                       /\ reservations' = reservations]_vars

\* a reserver kept from starting by another actor's entry on an open cell
C4_Witness ==
    /\ last.branch = "blocked"
    /\ last.entity \in GridReserver
    /\ LET target == Add(Cell(last.entity), intended[last.entity])
       IN  /\ ~is_wall(target, map_data)
           /\ target \in DOMAIN reservations
           /\ reservations[target] # last.entity

\* C5: the step a stationary reserver starts puts target -> actor into the
\* registry, and the entry of a reserver's destination stays, pointing to it,
\* in every step until the reserver arrives (while it is alive).
C5_ClaimHeld ==
    [][\A e \in GridReserver :
          /\ (Visits(e) /\ ~InTransit(e) /\ mover'[e].direction # ZERO) =>
                 /\ Add(Cell(e), mover'[e].direction) \in DOMAIN reservations'
                 /\ reservations'[Add(Cell(e), mover'[e].direction)] = e
          /\ (/\ e \in live /\ e \in live'
              /\ InTransit(e) /\ Owns(e, Dest(e))
              /\ mover'[e].grid_pos = Cell(e)) =>
                 /\ Dest(e) \in DOMAIN reservations'
                 /\ reservations'[Dest(e)] = e]_vars

\* a reserver part of the way into the cell it claimed some frames ago
C5_Witness ==
    \E e \in LiveReservers :
        /\ TickBoundary
        /\ InTransit(e)
        /\ mover[e].progress > 0
        /\ Owns(e, Dest(e))

\* C6: an arrival moves the actor to cell + direction; a reserver's arrival
\* removes the entry of the cell it left iff that entry is its own, and changes
\* nothing else in the registry; a non-reserver's arrival leaves it unchanged.
C6_ArrivalRelease ==
    [][\A e \in Entity :
          (Visits(e) /\ mover'[e].grid_pos # Cell(e)) =>
              /\ mover'[e].grid_pos = Dest(e)
              /\ reservations' =
                    IF e \in GridReserver /\ Owns(e, Cell(e))
                    THEN [c \in DOMAIN reservations \ {Cell(e)} |-> reservations[c]]
                    ELSE reservations]_vars

\* a reserver has just arrived from a cell that another live reserver holds,
\* and that entry is still there
C6_Witness ==
    /\ last.entity \in GridReserver
    /\ Cell(last.entity) # last.old_pos
    /\ last.old_pos \in DOMAIN reservations
    /\ reservations[last.old_pos] \in LiveReservers \ {last.entity}

\* C7: the sweep leaves the registry restricted to the entries whose occupant
\* is not in the set of removed reservers, and unchanged when that set is empty.
C7_SweepRestricts ==
    [][frame' # frame =>
          LET removed_set == removed_reservers \cup RemovedBy(commands)
          IN  /\ reservations' =
                    [c \in {d \in DOMAIN reservations : reservations[d] \notin removed_set}
                        |-> reservations[c]]
              /\ removed_set = {} => reservations' = reservations]_vars

\* a sweep has just cleared both entries of a reserver despawned on its way
C7_Witness == TickBoundary /\ Cardinality(swept) >= 2

\* C8: the sweep runs once per frame, at its end, after the motion update and
\* both collision checks (no other step outside the motion update changes the
\* registry), and the entries it removes belong to actors that are no longer
\* alive: the entries of live reservers stay as they are.
C8_SweepOnlyStale ==
    [][/\ (frame' = frame /\ ~moving.active) => reservations' = reservations
       /\ frame' # frame =>
             /\ frame' = frame + 1
             /\ {"update_grid_movement", "check_projectile_collisions",
                 "check_player_enemy_adjacency"} \subseteq done
             /\ \A c \in DOMAIN reservations :
                   reservations[c] \in live' \cap GridReserver =>
                       c \in DOMAIN reservations' /\ reservations'[c] = reservations[c]]_vars

\* a sweep has just cleared a cell while a live reserver kept its entry
C8_Witness ==
    /\ TickBoundary
    /\ swept # {}
    /\ \E e \in LiveReservers : \E c \in DOMAIN reservations : reservations[c] = e

\* C9 as stated: the entries of a despawned reserver block for exactly one tick,
\* that is, every such entry the sweep is about to remove was met by the motion
\* update of the frame.
C9_GhostBlocksOneTick ==
    done = Systems =>
        \A a \in removed_reservers \cup RemovedBy(commands) :
            (\E c \in DOMAIN reservations : reservations[c] = a) => a \in ghost_seen

\* C9 as amended: a despawn leaves the reserver's entries in place; while they
\* are there they keep every other reserver from starting into the cell; the
\* sweep of the same frame removes them, so that at a tick boundary every
\* entry belongs to a live actor and no entry blocks more than one motion update.
C9_GhostSweptWithinTick ==
    [][/\ \A a \in GridReserver :
            (a \in live /\ a \notin live' /\ frame' = frame) =>
                \A c \in DOMAIN reservations :
                    reservations[c] = a =>
                        c \in DOMAIN reservations' /\ reservations'[c] = a
       /\ \A e \in GridReserver :
            (/\ Visits(e) /\ ~InTransit(e) /\ intended[e] # ZERO
             /\ Add(Cell(e), intended[e]) \in DOMAIN reservations
             /\ reservations[Add(Cell(e), intended[e])] \notin live) =>
                mover'[e] = mover[e]
       /\ TickBoundary' =>
            \A c \in DOMAIN reservations' : reservations'[c] \in live']_vars

\* a reserver has just been kept from starting by the entry of a despawned one
C9_Witness ==
    /\ last.branch = "blocked"
    /\ last.entity \in GridReserver
    /\ LET target == Add(Cell(last.entity), intended[last.entity])
       IN  /\ target \in DOMAIN reservations
           /\ reservations[target] \notin live

\* C10: after every motion update every actor has 0 <= progress < 1.
C10_ProgressBound ==
    (MotionDone \/ TickBoundary) =>
        \A e \in live : mover[e].progress >= 0 /\ mover[e].progress < PUnit

\* the step in which check_projectile_collisions runs, and the events it writes
ProjectileCheckRuns ==
    "check_projectile_collisions" \notin done /\ "check_projectile_collisions" \in done'
NewCollisions ==
    SubSeq(collision_events', Len(collision_events) + 1, Len(collision_events'))
\* the bounces a projectile has used up
Bounced(p) == bouncable[p].initial - bouncable[p].remaining

\* C11: the projectile check writes no ProjectileCollision with the player as
\* victim for a projectile that has used up no bounce; for a moving projectile
\* that has bounced, whose target cell is registered to the player and whose
\* box overlaps the player's, it writes exactly one, with the player as victim.
C11_SelfFireImmunity ==
    [][ProjectileCheckRuns =>
          /\ \A i \in DOMAIN NewCollisions :
                NewCollisions[i].victim = PlayerEntity =>
                    Bounced(NewCollisions[i].projectile) >= 1
          /\ \A p \in Projectile \cap live :
                (/\ InTransit(p)
                 /\ Owns(PlayerEntity, Dest(p))
                 /\ PlayerEntity \in live
                 /\ Bounced(p) >= 1
                 /\ aabb_overlap(transform[p], ColliderSize,
                                 transform[PlayerEntity], ColliderSize)) =>
                    /\ Cardinality({i \in DOMAIN NewCollisions :
                                       NewCollisions[i].projectile = p}) = 1
                    /\ \E i \in DOMAIN NewCollisions :
                          NewCollisions[i] = [projectile |-> p, victim |-> PlayerEntity]]_vars

\* a projectile that has bounced has been reported hitting the player
C11_Witness ==
    \E i \in DOMAIN collision_events :
        /\ collision_events[i].victim = PlayerEntity
        /\ collision_events[i].projectile \in live
        /\ Bounced(collision_events[i].projectile) >= 1

\* the step in which check_player_enemy_adjacency runs
AdjacencyCheckRuns ==
    "check_player_enemy_adjacency" \notin done /\ "check_player_enemy_adjacency" \in done'
\* the enemy that overlaps the player from the neighbouring cell in direction d, or 0
OverlappingNeighbour(d) ==
    LET cell == Add(Cell(PlayerEntity), d)
    IN  IF /\ PlayerEntity \in live
           /\ cell \in DOMAIN reservations
           /\ reservations[cell] \in Enemy \cap live
           /\ aabb_overlap(transform[PlayerEntity], Expanded(ColliderSize),
                           transform[reservations[cell]], Expanded(ColliderSize))
        THEN reservations[cell]
        ELSE 0

\* C12: a run of the adjacency check writes at most one PlayerDied and one
\* EnemyDied; it stops at the first neighbouring cell, in the order Up, Down,
\* Left, Right, Up-Left, Up-Right, Down-Left, Down-Right, that is registered to
\* an enemy overlapping the player, and queues the despawn of the player and
\* of that enemy and of nothing else.
C12_AdjacencyCutoff ==
    [][AdjacencyCheckRuns =>
          LET order == <<<<0, 1>>, <<0, -1>>, <<-1, 0>>, <<1, 0>>,
                         <<-1, 1>>, <<1, 1>>, <<-1, -1>>, <<1, -1>>>>
              found == {i \in 1..8 : OverlappingNeighbour(order[i]) # 0}
          IN  /\ Len(player_died_events') <= Len(player_died_events) + 1
              /\ Len(enemy_died_events') <= Len(enemy_died_events) + 1
              /\ found = {} =>
                    /\ commands' = commands
                    /\ player_died_events' = player_died_events
                    /\ enemy_died_events' = enemy_died_events
              /\ found # {} =>
                    LET first == CHOOSE i \in found : \A j \in found : i <= j
                        enemy == OverlappingNeighbour(order[first])
                    IN  /\ commands' = commands \cup {Despawn(PlayerEntity), Despawn(enemy)}
                        /\ player_died_events' =
                              Append(player_died_events, transform[PlayerEntity])
                        /\ enemy_died_events' =
                              Append(enemy_died_events, transform[enemy])]_vars

\* the adjacency check has run with two different enemies overlapping the
\* player from neighbouring cells, and has written one death of each kind
C12_Witness ==
    /\ "check_player_enemy_adjacency" \in done
    /\ "handle_projectile_collisions" \notin done
    /\ Len(player_died_events) = 1
    /\ Len(enemy_died_events) = 1
    /\ \E d1, d2 \in Directions :
          /\ OverlappingNeighbour(d1) # 0
          /\ OverlappingNeighbour(d2) # 0
          /\ OverlappingNeighbour(d1) # OverlappingNeighbour(d2)

\* C13: the projectile check writes ProjectileCollision{p, v} only if p is
\* moving, the registry maps the cell p is heading for to v, v is an entity
\* with a transform and a collider, and the boxes of p and v overlap; a
\* projectile at rest writes nothing, and no projectile writes two events in
\* one run.
C13_CollisionOnlyIf ==
    [][ProjectileCheckRuns =>
          /\ Len(collision_events') >= Len(collision_events)
          /\ SubSeq(collision_events', 1, Len(collision_events)) = collision_events
          /\ \A i \in DOMAIN NewCollisions :
                LET p == NewCollisions[i].projectile
                    v == NewCollisions[i].victim
                IN  /\ p \in Projectile \cap live
                    /\ InTransit(p)
                    /\ Owns(v, Dest(p))
                    /\ v \in live
                    /\ aabb_overlap(transform[p], ColliderSize, transform[v], ColliderSize)
          /\ \A i, j \in DOMAIN NewCollisions :
                NewCollisions[i].projectile = NewCollisions[j].projectile => i = j]_vars

\* the check has reported a projectile hitting an enemy
C13_Witness ==
    /\ "check_projectile_collisions" \in done
    /\ \E i \in DOMAIN collision_events : collision_events[i].victim \in Enemy

\* C14: calculate_reflection(dir, p) is (dx, -dy) when the cell p + (dx, 0) is
\* not a wall; otherwise (-dx, dy) when p + (0, dy) is not a wall; otherwise
\* (-dx, -dy): the horizontal neighbour is looked at first, and a corner turns
\* the direction round, for every direction and every wall grid.
C14_Reflection ==
    call.fn = "calculate_reflection" /\ Returned =>
        LET dx == call.dir[1]
            dy == call.dir[2]
            horiz_wall == is_wall(<<call.grid_pos[1] + dx, call.grid_pos[2]>>, call.map)
            vert_wall == is_wall(<<call.grid_pos[1], call.grid_pos[2] + dy>>, call.map)
        IN  /\ ~horiz_wall => call.result = <<dx, -dy>>
            /\ horiz_wall /\ ~vert_wall => call.result = <<-dx, dy>>
            /\ horiz_wall /\ vert_wall => call.result = Neg(call.dir)

\* a diagonal reflection with both neighbours open, where the order of the
\* two tests decides
C14_Witness ==
    /\ call.fn = "calculate_reflection"
    /\ Returned
    /\ call.dir = <<1, 1>>
    /\ ~is_wall(Add(call.grid_pos, <<1, 0>>), call.map)
    /\ ~is_wall(Add(call.grid_pos, <<0, 1>>), call.map)
    /\ call.result = <<1, -1>>

\* C15: is_wall is true for x < 0, y < 0, x >= width, y >= height, and for a
\* cell inside the grid whose index (height - 1 - y) * width + x is past the
\* end of the wall vector; for every other cell it is the boolean stored at
\* that index; the call changes neither the map nor anything else.
C15_FailClosed ==
    [][call'.fn = "is_wall" /\ ~Returned /\ Returned' =>
          LET x == call.pos[1]
              y == call.pos[2]
              w == call.map.width
              h == call.map.height
              index == (h - 1 - y) * w + x
              outside == x < 0 \/ y < 0 \/ x >= w \/ y >= h
          IN  /\ outside => call'.result = TRUE
              /\ ~outside /\ index >= Len(call.map.is_wall) => call'.result = TRUE
              /\ ~outside /\ index < Len(call.map.is_wall) =>
                    call'.result = call.map.is_wall[index + 1]
              /\ call'.map = call.map
              /\ call'.pos = call.pos
              /\ UNCHANGED unch_game]_vars

\* a cell inside the grid whose index is past the end of the wall vector has
\* been looked up
C15_Witness ==
    /\ call.fn = "is_wall"
    /\ Returned
    /\ call.pos \in CellsOf(call.map)
    /\ (call.map.height - 1 - call.pos[2]) * call.map.width + call.pos[1]
          >= Len(call.map.is_wall)
    /\ call.result = TRUE

\* whether the motion update of this frame has begun
MotionStarted == moving.active \/ MotionDone

\* C16: in every frame the player's input system, the shoot system and both
\* AI systems have run before the motion update begins, and the projection of
\* the grid positions onto the transforms runs after the motion update.
C16_IntentMotionProjection ==
    /\ MotionStarted =>
          {"handle_player_input", "handle_shoot",
           "update_left_turners", "update_right_turners"} \subseteq done
    /\ "update_grid_positions" \in done => MotionDone /\ ~moving.active

\* a frame in which the projection has run after a motion update that moved
\* an entity
C16_Witness ==
    /\ "update_grid_positions" \in done
    /\ last.branch = "advance"
    /\ transform[last.entity] = EffectivePos(mover[last.entity])

\* C17: the increment of a frame is speed * dt / (tile_size * |direction|)
\* with |direction| the Euclidean length, so a diagonal step gets the
\* increment of an orthogonal one divided by the square root of 2: speed 100,
\* tile 64, direction (1, 1) and dt 0.64 give 0.707. (The result is the
\* quotient rounded down to the resolution; the length is taken to three
\* decimals.)
C17_Increment ==
    call.fn = "inc" /\ Returned =>
        LET sq == call.direction[1] * call.direction[1]
                     + call.direction[2] * call.direction[2]
            len == CHOOSE l \in 0..2000 : l * l <= 1000000 * sq /\ 1000000 * sq < (l + 1) * (l + 1)
            num == call.speed * call.dt * call.unit
            den == TILE_SIZE * len
        IN  /\ call.result * den <= num
            /\ num < (call.result + 1) * den
            /\ (call.speed = 100 /\ call.dt = 640 /\ call.direction = <<1, 1>>
                  /\ call.unit = 1000) => call.result = 707

\* the increment of the claim's example has been computed
C17_Witness ==
    /\ call.fn = "inc"
    /\ Returned
    /\ call.speed = 100
    /\ call.dt = 640
    /\ call.direction = <<1, 1>>
    /\ call.unit = 1000
    /\ call.result = 707

\* the motion update visits e, which is between two cells, and e reaches the
\* next cell in this step; its progress on arrival
ArrivalProgress(e) == mover[e].progress + Inc(mover[e], moving.dt)
Arrives(e) == Visits(e) /\ InTransit(e) /\ ArrivalProgress(e) >= PUnit

\* C18: on arrival with IntendedDirection equal to the direction and the cell
\* beyond the new cell not a wall, direction and IntendedDirection stay as
\* they are, progress becomes the progress on arrival minus 1, and the bounce
\* budget stays as it is.
C18_CarryOver ==
    [][\A e \in Entity :
          (/\ Arrives(e)
           /\ intended[e] = mover[e].direction
           /\ ~is_wall(Add(Dest(e), mover[e].direction), map_data)) =>
              /\ mover'[e].grid_pos = Dest(e)
              /\ mover'[e].direction = mover[e].direction
              /\ intended'[e] = intended[e]
              /\ mover'[e].progress = ArrivalProgress(e) - PUnit
              /\ bouncable'[e] = bouncable[e]]_vars

\* an entity has gone straight on and kept an excess
C18_Witness ==
    /\ last.branch = "continue"
    /\ mover[last.entity].progress > 0
    /\ intended[last.entity] = mover[last.entity].direction

\* C19: on arrival with IntendedDirection different from the direction,
\* progress becomes 0; the direction becomes IntendedDirection if that is not
\* zero and the cell next to the new cell in that direction is not a wall,
\* and zero otherwise; IntendedDirection stays as it is.
C19_Turn ==
    [][\A e \in Entity :
          (Arrives(e) /\ intended[e] # mover[e].direction) =>
              /\ mover'[e].grid_pos = Dest(e)
              /\ mover'[e].progress = 0
              /\ intended'[e] = intended[e]
              /\ mover'[e].direction =
                    IF intended[e] # ZERO /\ ~is_wall(Add(Dest(e), intended[e]), map_data)
                    THEN intended[e]
                    ELSE ZERO]_vars

\* an entity has arrived and set off in a new direction
C19_Witness ==
    /\ last.branch = "turn"
    /\ mover[last.entity].direction # ZERO
    /\ mover[last.entity].direction = intended[last.entity]
    /\ mover[last.entity].progress = 0

\* C20: on arrival with IntendedDirection equal to the direction, a wall
\* beyond the new cell and bounces remaining, direction and IntendedDirection
\* both become calculate_reflection(direction, new cell), remaining goes down
\* by one, the entity is not despawned, and progress becomes
\* (progress on arrival - 1) * old length / new length.
C20_Bounce ==
    [][\A e \in Entity :
          (/\ Arrives(e)
           /\ intended[e] = mover[e].direction
           /\ is_wall(Add(Dest(e), mover[e].direction), map_data)
           /\ e \in Projectile
           /\ bouncable[e].remaining > 0) =>
              LET new_dir == calculate_reflection(mover[e].direction, Dest(e), map_data)
                  scaled == (ArrivalProgress(e) - PUnit) * Length(mover[e].direction)
              IN  /\ mover'[e].grid_pos = Dest(e)
                  /\ mover'[e].direction = new_dir
                  /\ intended'[e] = new_dir
                  /\ bouncable'[e].remaining = bouncable[e].remaining - 1
                  /\ bouncable'[e].initial = bouncable[e].initial
                  /\ Despawn(e) \notin commands' \ commands
                  /\ mover'[e].progress * Length(new_dir) <= scaled
                  /\ scaled < (mover'[e].progress + 1) * Length(new_dir)]_vars

\* a projectile has bounced off a wall and kept an excess
C20_Witness ==
    /\ last.branch = "bounce"
    /\ last.entity \in Projectile
    /\ bouncable[last.entity].remaining < bouncable[last.entity].initial
    /\ mover[last.entity].progress > 0

\* the despawns a step queues
NewDespawns == DespawnedBy(commands' \ commands)

\* C21: on arrival with IntendedDirection equal to the direction, a wall
\* beyond the new cell and no bounce budget (no Bouncable, or remaining = 0),
\* direction and IntendedDirection become zero and progress 0; the actor is
\* despawned if and only if it is a projectile, and the motion update never
\* despawns a player or an enemy.
C21_StopAtWall ==
    [][(\A e \in Entity :
            (/\ Arrives(e)
             /\ intended[e] = mover[e].direction
             /\ is_wall(Add(Dest(e), mover[e].direction), map_data)
             /\ (e \notin Projectile \/ bouncable[e].remaining = 0)) =>
                /\ mover'[e].grid_pos = Dest(e)
                /\ mover'[e].direction = ZERO
                /\ intended'[e] = ZERO
                /\ mover'[e].progress = 0
                /\ (e \in NewDespawns) = (e \in Projectile))
       /\ (\A v \in Entity :
            Visits(v) => NewDespawns \cap ({PlayerEntity} \cup Enemy) = {})]_vars

\* a projectile that has used up its bounces has stopped at a wall and is
\* about to be despawned
C21_Witness ==
    /\ last.branch = "stop"
    /\ last.entity \in Projectile \cap live
    /\ bouncable[last.entity].remaining = 0
    /\ Despawn(last.entity) \in commands

\* C22: no actor is ever on a wall or heading into one: every live actor's
\* cell is not a wall and, when it is between two cells, neither is the cell
\* it is heading for; this includes the direction taken after a bounce.
C22_NeverInWall ==
    \A e \in live :
        /\ ~is_wall(Cell(e), map_data)
        /\ InTransit(e) => ~is_wall(Dest(e), map_data)

\* C23: at every tick boundary each registry entry cell -> a names a live
\* actor with the GridReserver tag, and the cell is a's cell or the cell a is
\* heading for: no entry is kept for a cell its owner has left and is not
\* heading to.
C23_EntriesJustified ==
    TickBoundary =>
        \A cell \in DOMAIN reservations :
            LET a == reservations[cell]
            IN  /\ a \in live \cap GridReserver
                /\ cell = Cell(a) \/ (InTransit(a) /\ cell = Dest(a))

\* a tick boundary at which a reserver between two cells holds the entries
\* of both, after an earlier arrival has given one up
C23_Witness ==
    /\ TickBoundary
    /\ frame > 2
    /\ \E a \in LiveReservers :
          /\ InTransit(a)
          /\ Owns(a, Cell(a))
          /\ Owns(a, Dest(a))
          /\ Cardinality({cell \in DOMAIN reservations : reservations[cell] = a}) = 2

\* C24: an insert into the registry never replaces another actor's entry:
\* no step changes the owner of an entry, and a step that adds an entry is
\* the motion update of the actor the new entry names.
C24_SingleWriter ==
    [][(\A cell \in DOMAIN reservations \cap DOMAIN reservations' :
            reservations'[cell] = reservations[cell])
       /\ (\A cell \in DOMAIN reservations' \ DOMAIN reservations :
            Visits(reservations'[cell]))]_vars

\* a reserver has started a step and claimed its destination while the
\* other cells next to it were held by other reservers
C24_Witness ==
    /\ last.branch = "start"
    /\ last.entity \in LiveReservers
    /\ Owns(last.entity, Dest(last.entity))
    /\ \E other \in LiveReservers \ {last.entity} :
          \E d \in Directions \ {ZERO} : Owns(other, Add(Cell(last.entity), d))

\* C25: projectiles never write the registry: a step of the motion update on
\* an actor without the GridReserver tag, whatever it does (start, advance,
\* arrive, bounce, stop, despawn), leaves the registry as it is, and such an
\* actor at rest with an intent starts unless the cell ahead is a wall,
\* whatever the registry holds for that cell.
C25_ProjectilesOnlyRead ==
    [][\A e \in Entity \ GridReserver :
          Visits(e) =>
              /\ reservations' = reservations
              /\ (~InTransit(e) /\ intended[e] # ZERO) =>
                    IF is_wall(Add(Cell(e), intended[e]), map_data)
                    THEN mover'[e] = mover[e]
                    ELSE /\ mover'[e].direction = intended[e]
                         /\ mover'[e].grid_pos = Cell(e)]_vars

\* a projectile has started towards a cell that is registered to a reserver
C25_Witness ==
    /\ last.branch = "start"
    /\ last.entity \in Projectile \cap live
    /\ Dest(last.entity) \in DOMAIN reservations
    /\ reservations[Dest(last.entity)] \in LiveReservers

\* the systems that ran in this step
Ran == done' \ done

\* C26: during a tick only the motion update changes an actor's cell,
\* direction or progress, and only the motion update and the sweep change
\* the registry: the input system, the AI systems, the projection and both
\* collision checks leave every actor's GridMover and every registry entry
\* as they are, and the input and AI systems leave the bounce budgets, the
\* transforms and the set of actors alone as well.
C26_OnlyMotionMoves ==
    [][/\ \A e \in live \cap live' : mover'[e] # mover[e] => Visits(e)
       /\ reservations' # reservations =>
             (\E e \in Entity : Visits(e)) \/ frame' = frame + 1
       /\ Ran \cap {"handle_player_input", "update_left_turners", "update_right_turners",
                    "update_grid_positions", "check_projectile_collisions",
                    "check_player_enemy_adjacency"} # {} =>
             mover' = mover /\ reservations' = reservations
       /\ Ran \cap {"handle_player_input", "update_left_turners",
                    "update_right_turners"} # {} =>
             /\ bouncable' = bouncable
             /\ transform' = transform
             /\ live' = live
             /\ commands' = commands]_vars

\* both collision checks and the projection have run in a frame in which a
\* reserver is between two cells and the AI has redirected an enemy
C26_Witness ==
    /\ {"check_projectile_collisions", "check_player_enemy_adjacency",
        "update_grid_positions"} \subseteq done
    /\ frame > 1
    /\ \E a \in LiveReservers : InTransit(a) /\ mover[a].progress > 0
    /\ \E e \in Enemy \cap live : intended[e] # ZERO /\ ~InTransit(e)

\* the actors of one kind destroyed since the frame began: those a sync point
\* of this frame has removed and those whose despawn is queued
Destroyed(kind) ==
    kind \cap (removed_reservers \cup (DespawnedBy(commands) \cap live))

\* C27: each destroyed player or enemy produces exactly one death event: the
\* EnemyDied events written in a frame are as many as the enemies destroyed in
\* it, and the PlayerDied events are at most one, whatever causes fall together
C27_OneDeathEvent ==
    /\ Len(enemy_died_events) = Cardinality(Destroyed(Enemy))
    /\ Len(player_died_events) <= Cardinality(Destroyed({PlayerEntity}))

\* the registered occupants of the cells the adjacency check probes that are
\* enemies with a transform and a collider
ProbedEnemies ==
    IF PlayerEntity \notin live THEN {}
    ELSE {reservations[c] :
             c \in {Add(Cell(PlayerEntity), DIRECTIONS[i]) : i \in DOMAIN DIRECTIONS}
                      \cap DOMAIN reservations} \cap Enemy \cap live

\* C28: a registry entry whose occupant is despawned and not yet swept, or,
\* for the adjacency check, is not an enemy, produces no event and no despawn:
\* the projectile check reports live victims only, writes nothing for a
\* projectile heading for a despawned occupant's cell and queues no command;
\* the adjacency check queues despawns of the player and of live probed
\* enemies only, and writes and queues nothing when it probes no live enemy.
C28_GhostsIgnored ==
    [][(ProjectileCheckRuns =>
           ((\A i \in DOMAIN NewCollisions : NewCollisions[i].victim \in live)
            /\ (\A p \in Projectile \cap live :
                   (InTransit(p) /\ Dest(p) \in DOMAIN reservations
                                 /\ reservations[Dest(p)] \notin live) =>
                       \A i \in DOMAIN NewCollisions : NewCollisions[i].projectile # p)
            /\ commands' = commands
            /\ player_died_events' = player_died_events
            /\ enemy_died_events' = enemy_died_events))
       /\ (AdjacencyCheckRuns =>
           ((NewDespawns \subseteq {PlayerEntity} \cup ProbedEnemies)
            /\ (ProbedEnemies = {} =>
                   (commands' = commands
                    /\ player_died_events' = player_died_events
                    /\ enemy_died_events' = enemy_died_events))))]_vars

\* both checks have run in a frame in which an enemy was despawned before the
\* motion update: the projectile, which the update only advanced, is heading
\* for the cell still registered to that enemy; the player has that cell and
\* a cell registered to itself among its neighbours; nothing was reported
C28_Witness ==
    /\ "check_projectile_collisions" \in done
    /\ "check_player_enemy_adjacency" \in done
    /\ collision_events = <<>>
    /\ commands = {}
    /\ player_died_events = <<>>
    /\ \E p \in Projectile \cap live :
          /\ last.entity = p /\ last.branch = "advance"
          /\ InTransit(p)
          /\ Dest(p) \in DOMAIN reservations
          /\ reservations[Dest(p)] \in removed_reservers
          /\ reservations[Dest(p)] \notin live
          /\ Chebyshev(Dest(p), Cell(PlayerEntity)) = 1
    /\ \E d \in Directions \ {ZERO} : Owns(PlayerEntity, Add(Cell(PlayerEntity), d))

C30_EventuallyDespawned ==
    <>(Projectile \cap live = {})

\* the step in which the AI system of a turner runs
AIRuns(e) ==
    LET system == IF e \in LeftTurners THEN "update_left_turners"
                  ELSE "update_right_turners"
    IN  system \notin done /\ system \in done'
\* an enemy at rest whose intent points at a wall or at another actor's cell
BlockedAtRest(e) ==
    /\ ~InTransit(e)
    /\ intended[e] # ZERO
    /\ is_blocked(Add(Cell(e), intended[e]), e, reservations, map_data)

\* C31: an enemy at rest whose intended cell is blocked is given a new
\* IntendedDirection by the next run of its AI system.
C31_BlockedEnemyRedirected ==
    [][\A e \in Enemy \cap live :
          (AIRuns(e) /\ BlockedAtRest(e)) => intended'[e] # intended[e]]_vars

\* a cell is blocked for an enemy: a wall, or registered to another actor
Blocked(e, cell) ==
    is_wall(cell, map_data) \/ (cell \in DOMAIN reservations /\ reservations[cell] # e)
\* the direction the turn priority gives enemy e: the first of its two sides
\* that is not blocked, else back
Priority(e) ==
    LET f == turner[e]
        L == <<f[2], 0 - f[1]>>
        R == <<0 - f[2], f[1]>>
        first == IF e \in LeftTurners THEN L ELSE R
        second == IF e \in LeftTurners THEN R ELSE L
    IN  IF ~Blocked(e, Add(Cell(e), first)) THEN first
        ELSE IF ~Blocked(e, Add(Cell(e), second)) THEN second
        ELSE <<0 - f[1], 0 - f[2]>>

\* C32: when its AI system runs, an enemy whose IntendedDirection is zero gets
\* the direction of the turn priority (left, right, back for a LeftTurner;
\* right, left, back for a RightTurner; back without a blocked test); an enemy
\* whose IntendedDirection is not zero keeps it, and its last_known_direction
\* becomes that intent.
C32_TurnPriority ==
    [][\A e \in Enemy \cap live :
          AIRuns(e) =>
              ((intended[e] = ZERO => intended'[e] = Priority(e))
               /\ (intended[e] # ZERO =>
                      (intended'[e] = intended[e] /\ turner'[e] = intended[e])))]_vars

\* the AI system of a turner has run on a turner stopped at a wall whose
\* first side is blocked and whose second side is open: the turner has the
\* second side as intent and as last_known_direction.  (A turner at rest with
\* an intent of its own is at rest because the cell it points at is taken.)
C32_Witness ==
    \E e \in Enemy \cap live :
    \E f \in ValidDirs :
        LET L == <<f[2], 0 - f[1]>>
            R == <<0 - f[2], f[1]>>
            first == IF e \in LeftTurners THEN L ELSE R
            second == IF e \in LeftTurners THEN R ELSE L
        IN  /\ (IF e \in LeftTurners THEN "update_left_turners"
                ELSE "update_right_turners") \in done
            /\ ~InTransit(e)
            /\ is_wall(Add(Cell(e), f), map_data)
            /\ Blocked(e, Add(Cell(e), first))
            /\ ~is_wall(Add(Cell(e), first), map_data)
            /\ ~Blocked(e, Add(Cell(e), second))
            /\ intended[e] = second
            /\ turner[e] = second

\* the state spawn_player and spawn_enemies leave behind
JustSpawned == frame = 1 /\ done = {} /\ ~moving.active
SquaredDistance(a, b) ==
    (a[1] - b[1]) * (a[1] - b[1]) + (a[2] - b[2]) * (a[2] - b[2])

\* C33: every actor is created at rest (direction zero, progress 0); the
\* player and every enemy are spawned on a cell that is not a wall, the
\* registry maps the cell of each to itself, no two of them share a cell, and
\* every enemy is at squared distance at least MIN_DIST_SQ from the player with
\* an IntendedDirection whose target cell is not a wall.
C33_Spawn ==
    [][(JustSpawned =>
           ((\A e \in live :
                (~InTransit(e) /\ mover[e].progress = 0
                 /\ ~is_wall(Cell(e), map_data) /\ Owns(e, Cell(e))))
            /\ live = {PlayerEntity} \cup Enemy
            /\ (\A e1, e2 \in live : e1 # e2 => Cell(e1) # Cell(e2))
            /\ (\A e \in Enemy :
                   (SquaredDistance(Cell(e), Cell(PlayerEntity)) >= MIN_DIST_SQ
                    /\ intended[e] # ZERO
                    /\ ~is_wall(Add(Cell(e), intended[e]), map_data)))))
       /\ (\A e \in live' \ live :
              (mover'[e].direction = ZERO /\ mover'[e].progress = 0))]_vars

\* in the first frame, before the motion update, the player and the enemies
\* are as they were spawned and a projectile has just been created
C33_Witness ==
    /\ frame = 1
    /\ "apply_deferred_input" \in done
    /\ "update_grid_movement" \notin done /\ ~moving.active
    /\ live = Entity
    /\ \A e \in live : ~InTransit(e) /\ mover[e].progress = 0
    /\ \A e \in LiveReservers : Owns(e, Cell(e))
    /\ \A e \in Projectile : intended[e] # ZERO

\* the step in which handle_shoot runs, and whether the player can fire
ShootRuns == "handle_shoot" \notin done /\ "handle_shoot" \in done'
CanFire ==
    /\ PlayerEntity \in live
    /\ intended[PlayerEntity] # ZERO
    /\ ~is_wall(Add(Cell(PlayerEntity), intended[PlayerEntity]), map_data)

Abs(n) == IF n >= 0 THEN n ELSE 0 - n

\* C35: calculate_reflection only flips signs: each component of its result
\* has the absolute value of the same component of the direction, for every
\* direction and every wall grid; so the result has the length of the
\* direction and the progress after a bounce is the excess unscaled, a
\* diagonal stays diagonal and an orthogonal orthogonal, and the result of a
\* direction that is not zero is not zero.
C35_SignFlipsOnly ==
    (call.fn = "calculate_reflection" /\ Returned) =>
        /\ Abs(call.result[1]) = Abs(call.dir[1])
        /\ Abs(call.result[2]) = Abs(call.dir[2])
        /\ Length(call.result) = Length(call.dir)
        /\ \A progress \in PUnit..(2 * PUnit) :
              BounceProgress(progress, call.dir, call.result) = progress - PUnit
        /\ (call.dir[1] # 0 /\ call.dir[2] # 0) = (call.result[1] # 0 /\ call.result[2] # 0)
        /\ call.dir # ZERO => call.result # ZERO

\* a diagonal direction reflected in a corner: both neighbours are walls and
\* both signs are flipped
C35_Witness ==
    /\ call.fn = "calculate_reflection"
    /\ Returned
    /\ call.dir = <<-1, 1>>
    /\ is_wall(Add(call.grid_pos, <<-1, 0>>), call.map)
    /\ is_wall(Add(call.grid_pos, <<0, 1>>), call.map)
    /\ ~is_wall(call.grid_pos, call.map)
    /\ call.result = <<1, -1>>
====
